---- MODULE Spec2Model ----
(***************************************************************************)
(* Model of the audio analysis pipeline of colab-llm-learning-system:      *)
(* AudioAnalyzer.analyze_audio (backend/app/services/audio_analyzer.py)    *)
(* and the services it drives: tag metadata, LibrosaFeatureExtractor,      *)
(* EssentiaFeatureExtractor, ChordAnalyzer and WhisperTranscriber.         *)
(*                                                                         *)
(* Python strings are sequences of one-character strings, so that          *)
(* formatting (f"{root}:{quality}"), str.split(":") and re.search(r'\d{4}')*)
(* are computed rather than assumed.  Python values that may be None are   *)
(* records with a field t.  Times are counted in frame periods (1/fps s),  *)
(* confidences in hundredths.                                              *)
(***************************************************************************)
EXTENDS Integers, Sequences, FiniteSets, TLC

\* ------------------------------------------------------------------ bounds
\* Number of analyze_audio calls made on the shared AudioAnalyzer instance.
MaxRuns == 2
\* Longest frame sequence the chord recogniser decodes.
MaxFrames == 3
\* Longest frame sequence handed to ChordAnalyzer.analyze on its own.
MaxChordFrames == 6
\* Longest frame sequence over two chord classes handed to it on its own.
MaxLongFrames == 7
\* Longest frame sequence over all the classes of the recogniser.
MaxVocabFrames == 2
\* Requests the endpoints serve, one after the other.
MaxRequests == 3

\* ----------------------------------------------------------- Python values
PyNone == [t |-> "None"]
PyStr(chars) == [t |-> "str", v |-> chars]
PyInt(n) == [t |-> "int", v |-> n]
IsNone(x) == x.t = "None"

Digits == <<"0", "1", "2", "3", "4", "5", "6", "7", "8", "9">>
IsDigit(c) == \E d \in 1..10 : Digits[d] = c
DigitVal(c) == (CHOOSE d \in 1..10 : Digits[d] = c) - 1

\* int("2020") for a string of digits.
RECURSIVE ParseInt(_)
ParseInt(s) ==
    IF Len(s) = 0 THEN 0
    ELSE 10 * ParseInt(SubSeq(s, 1, Len(s) - 1)) + DigitVal(s[Len(s)])

\* ------------------------------------------------------------- tag metadata
\* tag_mapping.items(): keys in insertion order, each with its candidate tags.
MetaKeys == <<"title", "artist", "album", "genre", "year">>
tag_mapping ==
    [title  |-> <<"TIT2", "Title", "(c)nam", "TITLE">>,
     artist |-> <<"TPE1", "Artist", "(c)ART", "ARTIST">>,
     album  |-> <<"TALB", "Album", "(c)alb", "ALBUM">>,
     genre  |-> <<"TCON", "Genre", "(c)gen", "GENRE">>,
     year   |-> <<"TDRC", "Date", "(c)day", "DATE">>]

\* A tag value as mutagen hands it out: a list of strings (Vorbis, MP4, ASF)
\* or a single frame whose str() is items[1] (ID3).
ListVal(items) == [islist |-> TRUE, items |-> items]
FrameVal(s) == [islist |-> FALSE, items |-> <<s>>]

\* First candidate tag of `key` that the file carries, 0 when none does.
FirstTag(tags, key) ==
    LET cand == tag_mapping[key]
        hits == {i \in 1..Len(cand) : cand[i] \in DOMAIN tags}
    IN IF hits = {} THEN 0 ELSE CHOOSE i \in hits : \A j \in hits : i <= j

\* The for-loop over tag_mapping.items(), from key number k on.  Reading
\* value[0] of an empty list raises IndexError, which leaves the loop with
\* the entries stored so far.
RECURSIVE TagLoop(_, _, _)
TagLoop(tags, k, metadata) ==
    IF k > Len(MetaKeys) THEN [metadata |-> metadata, raised |-> FALSE]
    ELSE LET key == MetaKeys[k]
             i == FirstTag(tags, key)
         IN IF i = 0 THEN TagLoop(tags, k + 1, metadata)
            ELSE LET value == tags[tag_mapping[key][i]]
                 IN IF value.islist /\ Len(value.items) = 0
                    THEN [metadata |-> metadata, raised |-> TRUE]
                    ELSE TagLoop(tags, k + 1,
                                 [x \in DOMAIN metadata \cup {key} |->
                                     IF x = key THEN PyStr(value.items[1])
                                     ELSE metadata[x]])

\* re.search(r'\d{4}', year_str): start of the first run of four digits, or 0.
YearMatch(s) ==
    LET hits == {i \in 1..(Len(s) - 3) : \A j \in 0..3 : IsDigit(s[i + j])}
    IN IF hits = {} THEN 0 ELSE CHOOSE i \in hits : \A j \in hits : i <= j

\* "Handle year specially": the year becomes an int when four digits are
\* found and stays the tag's string otherwise.
YearFix(metadata) ==
    IF "year" \notin DOMAIN metadata THEN metadata
    ELSE LET year_str == metadata["year"].v
             m == YearMatch(year_str)
         IN IF m = 0 THEN metadata
            ELSE [metadata EXCEPT !["year"] = PyInt(ParseInt(SubSeq(year_str, m, m + 3)))]

EmptyDict == [x \in {} |-> PyNone]

\* The same method without its try/except: what MutagenFile or the tag loop
\* raises reaches the caller.
_extract_metadata_unguarded(mf) ==
    IF mf.kind = "raise" THEN [raised |-> TRUE, metadata |-> EmptyDict]
    ELSE IF mf.kind = "none" THEN [raised |-> FALSE, metadata |-> EmptyDict]
    ELSE LET r == TagLoop(mf.tags, 1, EmptyDict)
         IN [raised |-> r.raised,
             metadata |-> IF r.raised THEN r.metadata ELSE YearFix(r.metadata)]

\* AudioAnalyzer._extract_metadata; `mf` is what MutagenFile did.  Every
\* exception is caught, so the dict built so far is what it returns.
_extract_metadata(mf) ==
    IF mf.kind = "raise" THEN [raised |-> FALSE, metadata |-> EmptyDict]
    ELSE IF mf.kind = "none" THEN [raised |-> FALSE, metadata |-> EmptyDict]
    ELSE LET r == TagLoop(mf.tags, 1, EmptyDict)
         IN [raised |-> FALSE,
             metadata |-> IF r.raised THEN r.metadata ELSE YearFix(r.metadata)]

\* dict.get(key): None for a missing key.
DictGet(d, key) == IF key \in DOMAIN d THEN d[key] ELSE PyNone

\* ------------------------------------------------------------ ChordAnalyzer
\* self.fps: frames per second of the chord recogniser.
fps == 10
\* Index of madmom's no-chord class.
NoChordIdx == 24

PyFloat(h) == [t |-> "float", v |-> h]

\* ---------------------------------------------------------- Python floats
\* The floats of the chord code are IEEE-754 doubles.  A double x >= 0 is
\* written <<num, dev>> with x = (num + dev / 2^FloatBits) / FloatScale: num
\* is the decimal the code means, in hundredths, and dev is how far the
\* double lies from it.  Doubles of 1/16 and more are multiples of
\* 2^-FloatBits, which makes dev an integer; the chord code produces no
\* smaller double but 0.
FloatScale == 100
FloatBits == 56
\* Width of the steps by which 2^FloatBits is built up in 32-bit arithmetic.
ShiftStep == 14

Pow2(j) == 2^j

\* (a * 2^k) % m
RECURSIVE ShiftMod(_, _, _)
ShiftMod(a, k, m) ==
    IF k = 0 THEN a % m
    ELSE LET step == IF k >= ShiftStep THEN ShiftStep ELSE k
         IN ShiftMod(((a % m) * Pow2(step)) % m, k - step, m)

\* The real (num + e / 2^FloatBits) / FloatScale lies below 2^(t - 4).
BelowPow2(num, e, t) ==
    \/ 16 * num < FloatScale * Pow2(t)
    \/ 16 * num = FloatScale * Pow2(t) /\ e < 0

\* The spacing of the doubles around that real, in units of 2^-FloatBits:
\* 1 in [1/16, 1/8), 2 in [1/8, 1/4), and so on.
RECURSIVE UlpFrom(_, _, _)
UlpFrom(num, e, t) == IF BelowPow2(num, e, t + 1) THEN Pow2(t) ELSE UlpFrom(num, e, t + 1)

\* The double next below or next above a real that lies r above a double,
\* where doubles are m apart, all in units of 1 / (n * FloatScale * 2^FloatBits);
\* r2 is r + m when the significand of the double below is odd.
RoundPick(q, e, n, m, r2) ==
    LET r == r2 % m
    IN IF 2 * r < m \/ (2 * r = m /\ r2 < m)
       THEN <<q, (e - r) \div n>>
       ELSE <<q, (e - r + m) \div n>>

RoundAt(num, e, n, m) ==
    RoundPick(num \div n, e, n, m, (ShiftMod(num % (2 * m), FloatBits, 2 * m) + e) % (2 * m))

\* Round to nearest, ties to even: the double nearest to the real
\* (num + e / 2^FloatBits) / (n * FloatScale), for n dividing num.
Round(num, e, n) ==
    IF num = 0 /\ e = 0 THEN <<0, 0>>
    ELSE RoundAt(num, e, n, n * FloatScale * UlpFrom(num \div n, e, 0))

\* A float literal such as 0.85, given in hundredths.
FloatLit(hundredths) == Round(hundredths, 0, 1)
\* a / b for ints a, b with b dividing FloatScale.
IntTrueDiv(a, b) == Round(a * (FloatScale \div b), 0, 1)
\* x - y, x + y, x / n
FloatSub(x, y) == Round(x[1] - y[1], x[2] - y[2], 1)
FloatAdd(x, y) == Round(x[1] + y[1], x[2] + y[2], 1)
FloatDivInt(x, n) == Round(x[1], x[2], n)
\* x < y and x <= y: |dev| is far below 2^FloatBits, so num decides first.
FloatLess(x, y) == x[1] < y[1] \/ (x[1] = y[1] /\ x[2] < y[2])
FloatLeq(x, y) == x = y \/ FloatLess(x, y)

\* The final chord given the length of one frame.
FinalDuration_OneFrame == IntTrueDiv(1, fps)

\* 'duration': 0.5 of the final chord.
FinalDuration == FloatLit(50)
\* 'confidence': 0.85
DefaultConfidence == FloatLit(85)
\* prev_time = 0
ZeroTime == <<0, 0>>

CHORD_NAMES ==
    << <<"C">>, <<"C", "#">>, <<"D">>, <<"D", "#">>, <<"E">>, <<"F">>,
       <<"F", "#">>, <<"G">>, <<"G", "#">>, <<"A">>, <<"A", "#">>, <<"B">> >>

\* prev_chord = None before the first frame.
NoChord == <<"None">>

\* _get_chord_name without the test for the no-chord class.
_get_chord_name_NoN(chord_idx) ==
    CHORD_NAMES[(chord_idx % 12) + 1] \o <<":">>
        \o (IF chord_idx < 12 THEN <<"m", "a", "j">> ELSE <<"m", "i", "n">>)

\* _get_chord_name with the major triads taken to reach up to index 12.
_get_chord_name_OffByOne(chord_idx) ==
    IF chord_idx = NoChordIdx THEN <<"N">>
    ELSE CHORD_NAMES[(chord_idx % 12) + 1] \o <<":">>
            \o (IF chord_idx <= 12 THEN <<"m", "a", "j">> ELSE <<"m", "i", "n">>)

\* ChordAnalyzer._get_chord_name
_get_chord_name(chord_idx) ==
    IF chord_idx = NoChordIdx THEN <<"N">>
    ELSE LET root == chord_idx % 12
             quality == IF chord_idx < 12 THEN <<"m", "a", "j">> ELSE <<"m", "i", "n">>
         IN CHORD_NAMES[root + 1] \o <<":">> \o quality

ChordEvent(time, chord, duration) ==
    [time |-> time, chord |-> chord, duration |-> duration,
     confidence |-> DefaultConfidence]

\* The for-loop of _detect_chords_madmom from frame number i (1-based) on;
\* frame_idx = i - 1 and time = frame_idx / fps is kept in frame periods.
\* The frame loop without the comparison with prev_chord: every frame closes
\* the event before it.
RECURSIVE MergeLoop_NoMerge(_, _, _, _, _)
MergeLoop_NoMerge(chords, i, chords_data, prev_chord, prev_time) ==
    IF i > Len(chords)
    THEN [chords_data |-> chords_data, prev_chord |-> prev_chord, prev_time |-> prev_time]
    ELSE LET time == IntTrueDiv(i - 1, fps)
         IN MergeLoop_NoMerge(chords, i + 1,
                IF prev_chord # NoChord
                THEN Append(chords_data,
                            ChordEvent(prev_time, prev_chord, FloatSub(time, prev_time)))
                ELSE chords_data,
                _get_chord_name(chords[i]), time)

RECURSIVE MergeLoop(_, _, _, _, _)
MergeLoop(chords, i, chords_data, prev_chord, prev_time) ==
    IF i > Len(chords)
    THEN [chords_data |-> chords_data, prev_chord |-> prev_chord, prev_time |-> prev_time]
    ELSE LET time == IntTrueDiv(i - 1, fps)
             chord_name == _get_chord_name(chords[i])
         IN IF chord_name # prev_chord
            THEN MergeLoop(chords, i + 1,
                           IF prev_chord # NoChord
                           THEN Append(chords_data,
                                       ChordEvent(prev_time, prev_chord,
                                                  FloatSub(time, prev_time)))
                           ELSE chords_data,
                           chord_name, time)
            ELSE MergeLoop(chords, i + 1, chords_data, prev_chord, prev_time)

\* ChordAnalyzer._detect_chords_madmom, from the decoded frame classes on.
_detect_chords_madmom(chords) ==
    LET r == MergeLoop(chords, 1, <<>>, NoChord, ZeroTime)
    IN IF r.prev_chord # NoChord
       THEN Append(r.chords_data, ChordEvent(r.prev_time, r.prev_chord, FinalDuration))
       ELSE r.chords_data

\* str.split(sep) for a one-character separator.
RECURSIVE Split(_, _)
Split(s, sep) ==
    LET hits == {i \in 1..Len(s) : s[i] = sep}
    IN IF hits = {} THEN <<s>>
       ELSE LET i == CHOOSE x \in hits : \A y \in hits : x <= y
            IN <<SubSeq(s, 1, i - 1)>> \o Split(SubSeq(s, i + 1, Len(s)), sep)

Range(s) == {s[i] : i \in 1..Len(s)}

\* list(set(chord_sequence)): each label once; the order of a Python set is
\* unspecified, one enumeration is fixed here.
RECURSIVE ListOfSet(_)
ListOfSet(S) ==
    IF S = {} THEN <<>>
    ELSE LET x == CHOOSE y \in S : TRUE IN <<x>> \o ListOfSet(S \ {x})

\* f"{from_chord} -> {to_chord}"
TransitionKey(from_chord, to_chord) == from_chord \o <<" ", "-", ">", " ">> \o to_chord

\* list(chord_sequence): the labels listed without going through a set.
UniqueChords_NoSet(chord_sequence) == chord_sequence

\* list(set(chord_sequence))
UniqueChords(chord_sequence) == ListOfSet(Range(chord_sequence))

EmptyTransitions == [k \in {} |-> 0]

\* transitions[transition] = 1: the count already stored is not read.
DictIncrement_Overwrite(d, k) == [x \in DOMAIN d \cup {k} |-> IF x = k THEN 1 ELSE d[x]]

\* transitions[transition] = transitions.get(transition, 0) + 1
DictIncrement(d, k) ==
    [x \in DOMAIN d \cup {k} |->
        IF x = k THEN (IF k \in DOMAIN d THEN d[k] ELSE 0) + 1 ELSE d[x]]

\* The loop over range(len(chord_sequence) - 1), from pair number i on.
RECURSIVE TransitionsLoop(_, _, _)
TransitionsLoop(chord_sequence, i, transitions) ==
    IF i > Len(chord_sequence) - 1 THEN transitions
    ELSE TransitionsLoop(chord_sequence, i + 1,
             DictIncrement(transitions,
                           TransitionKey(chord_sequence[i], chord_sequence[i + 1])))

\* The transitions dict after the loop.
Transitions(chord_sequence) == TransitionsLoop(chord_sequence, 1, EmptyTransitions)

\* A Counter that notes each label once and never counts it again.
RECURSIVE CounterItems_NoCount(_, _, _)
CounterItems_NoCount(chord_sequence, i, items) ==
    IF i > Len(chord_sequence) THEN items
    ELSE CounterItems_NoCount(chord_sequence, i + 1,
             IF \E j \in 1..Len(items) : items[j][1] = chord_sequence[i] THEN items
             ELSE Append(items, <<chord_sequence[i], 1>>))

\* Counter(chord_sequence): the (label, count) items in insertion order,
\* after counting the labels from number i on.
RECURSIVE CounterItems(_, _, _)
CounterItems(chord_sequence, i, items) ==
    IF i > Len(chord_sequence) THEN items
    ELSE LET x == chord_sequence[i]
             at == {j \in 1..Len(items) : items[j][1] = x}
         IN CounterItems(chord_sequence, i + 1,
                IF at = {} THEN Append(items, <<x, 1>>)
                ELSE [j \in 1..Len(items) |->
                         IF j \in at THEN <<x, items[j][2] + 1>> ELSE items[j]])

\* The scan that lets a later item of equal count replace the best so far.
RECURSIVE MaxByCount_LastWins(_, _, _)
MaxByCount_LastWins(items, j, best) ==
    IF j > Len(items) THEN best
    ELSE MaxByCount_LastWins(items, j + 1,
                             IF items[j][2] >= best[2] THEN items[j] ELSE best)

\* max(items, key=count) as most_common(1) computes it: the scan keeps the
\* item met first among those of the largest count.
RECURSIVE MaxByCount(_, _, _)
MaxByCount(items, j, best) ==
    IF j > Len(items) THEN best
    ELSE MaxByCount(items, j + 1, IF items[j][2] > best[2] THEN items[j] ELSE best)

\* Counter(chord_sequence).most_common(1)[0][0] of a non-empty sequence.
MostCommon(chord_sequence) ==
    LET items == CounterItems(chord_sequence, 1, <<>>)
    IN MaxByCount(items, 2, items[1])[1]

RECURSIVE SumSeq(_)
SumSeq(s) == IF Len(s) = 0 THEN 0 ELSE s[1] + SumSeq(Tail(s))

\* ChordProgression(...) with the model's field defaults.
ChordProgression(chords, chord_sequence, unique, transitions, most_common, key, mode, mean) ==
    [t |-> "ChordProgression", chords |-> chords, chord_sequence |-> chord_sequence,
     key |-> key, mode |-> mode, unique_chords |-> unique,
     chord_transitions |-> transitions, most_common_chord |-> most_common,
     analyzer_used |-> "madmom", confidence_mean |-> mean]

\* np.add.reduce over a float64 array: the items are added one after the
\* other (for equal items, as here, numpy's pairwise summation gives this
\* sum for every array of at most 8 items).
RECURSIVE FloatSum(_, _)
FloatSum(s, i) == IF i = 0 THEN <<0, 0>> ELSE FloatAdd(FloatSum(s, i - 1), s[i])

\* The sum of the confidences, not divided by their number.
FloatMean_Sum(s) == FloatSum(s, Len(s))

\* float(np.mean(confidences)): the sum divided by the number of items.
FloatMean(s) == FloatDivInt(FloatSum(s, Len(s)), Len(s))

\* The summary of no events without its "confidence_mean" entry.
EmptyAnalysis_NoMean ==
    ChordProgression(<<>>, <<>>, <<>>, EmptyTransitions, PyNone, PyNone, PyNone, PyNone)

\* The dict returned for `not chords_data`, as ChordProgression(**analysis):
\* the keys it lacks (most_common_chord, key, mode) take the default None.
EmptyAnalysis ==
    ChordProgression(<<>>, <<>>, <<>>, EmptyTransitions, PyNone, PyNone, PyNone,
                     PyFloat(FloatLit(0)))

\* The mode taken to be major whatever the quality.
ModeOf_AlwaysMajor(quality) == <<"m", "a", "j", "o", "r">>

\* mode = "major" if parts[1] == "maj" else "minor"
ModeOf(quality) ==
    IF quality = <<"m", "a", "j">> THEN <<"m", "a", "j", "o", "r">>
    ELSE <<"m", "i", "n", "o", "r">>

\* ChordAnalyzer._analyze_chord_sequence followed by ChordProgression(**analysis).
_analyze_chord_sequence(chords_data) ==
    IF Len(chords_data) = 0
    THEN EmptyAnalysis
    ELSE LET chord_sequence == [i \in 1..Len(chords_data) |-> chords_data[i].chord]
             most_common_chord == MostCommon(chord_sequence)
             confidences == [i \in 1..Len(chords_data) |-> chords_data[i].confidence]
             parts == Split(most_common_chord, ":")
             estimated == most_common_chord # <<"N">> /\ Len(parts) = 2
         IN ChordProgression(
                chords_data, chord_sequence, UniqueChords(chord_sequence),
                Transitions(chord_sequence), PyStr(most_common_chord),
                IF estimated THEN PyStr(parts[1]) ELSE PyNone,
                IF estimated THEN PyStr(ModeOf(parts[2])) ELSE PyNone,
                PyFloat(FloatMean(confidences)))

\* The ChordProgression built in the except branch of ChordAnalyzer.analyze.
FallbackProgression ==
    ChordProgression(<<>>, <<>>, <<>>, EmptyTransitions, PyNone, PyNone, PyNone, PyNone)

\* ChordAnalyzer.analyze: `madmom` is what the recogniser did, either
\* [kind |-> "raise"] (processor unavailable, audio not decodable) or
\* [kind |-> "frames", chords |-> the decoded class of every frame].
\* The result tells whether analyze returned or raised.
ChordAnalyzer_analyze(madmom) ==
    IF madmom.kind = "raise"
    THEN [raised |-> FALSE, value |-> FallbackProgression]
    ELSE [raised |-> FALSE,
          value |-> _analyze_chord_sequence(_detect_chords_madmom(madmom.chords))]

\* ------------------------------------------------- LibrosaFeatureExtractor
\* What librosa did on one call: librosa.load raised, a feature computation
\* raised after the load, or everything was computed.
LibrosaOutcomes ==
    {[kind |-> "load_raise", sr |-> 0, duration |-> 0]}
    \cup {[kind |-> k, sr |-> r, duration |-> 180] :
            k \in {"feature_raise", "ok"}, r \in {22050, 44100}}

Exception(origin) == [t |-> "Exception", origin |-> origin]

\* extract_all_features with a feature error logged and not raised again.
Librosa_swallow_feature_error(self_sr, o) ==
    IF o.kind = "load_raise"
    THEN [self_sr |-> self_sr, raised |-> TRUE, exc |-> Exception("librosa.load")]
    ELSE [self_sr |-> o.sr, raised |-> FALSE,
          features |-> [t |-> "LibrosaFeatures"], duration |-> o.duration, sr |-> o.sr]

\* extract_all_features with the load guarded by a default result.
Librosa_default_on_load_error(self_sr, o) ==
    IF o.kind = "feature_raise"
    THEN [self_sr |-> o.sr, raised |-> TRUE, exc |-> Exception("librosa.feature")]
    ELSE [self_sr |-> IF o.kind = "ok" THEN o.sr ELSE self_sr, raised |-> FALSE,
          features |-> [t |-> "LibrosaFeatures"], duration |-> o.duration,
          sr |-> IF o.kind = "ok" THEN o.sr ELSE self_sr]

\* LibrosaFeatureExtractor.extract_all_features: the value of self.sr after
\* the call and either the returned tuple or the raised exception.
Librosa_extract_all_features(self_sr, o) ==
    IF o.kind = "load_raise"
    THEN [self_sr |-> self_sr, raised |-> TRUE, exc |-> Exception("librosa.load")]
    ELSE IF o.kind = "feature_raise"
    THEN [self_sr |-> o.sr, raised |-> TRUE, exc |-> Exception("librosa.feature")]
    ELSE [self_sr |-> o.sr, raised |-> FALSE,
          features |-> [t |-> "LibrosaFeatures"], duration |-> o.duration, sr |-> o.sr]

\* ------------------------------------------------ EssentiaFeatureExtractor
EssentiaOutcomes == {"load_raise", "feature_raise", "ok"}

\* extract_all_features returning empty features when a descriptor fails.
Essentia_swallow_feature_error(o) ==
    IF o = "load_raise" THEN [raised |-> TRUE, exc |-> Exception("essentia.MonoLoader")]
    ELSE [raised |-> FALSE, features |-> [t |-> "EssentiaFeatures"]]

\* EssentiaFeatureExtractor.extract_all_features
Essentia_extract_all_features(o) ==
    IF o = "load_raise" THEN [raised |-> TRUE, exc |-> Exception("essentia.MonoLoader")]
    ELSE IF o = "feature_raise" THEN [raised |-> TRUE, exc |-> Exception("essentia.feature")]
    ELSE [raised |-> FALSE, features |-> [t |-> "EssentiaFeatures"]]

\* ------------------------------------------------------ WhisperTranscriber
\* WhisperTranscriber.__init__: the client exists only with an API key.
WhisperClient(api_key) == IF api_key = "" THEN PyNone ELSE [t |-> "OpenAI", api_key |-> api_key]

\* Answers of client.audio.transcriptions.create: an APIError, another
\* exception, or a verbose_json response with its segments' confidences.
ApiAnswers ==
    {[kind |-> "api_error", segments |-> <<>>],
     [kind |-> "exception", segments |-> <<>>],
     [kind |-> "response", segments |-> <<>>],
     [kind |-> "response", segments |-> <<PyNone>>],
     [kind |-> "response", segments |-> <<PyFloat(90), PyNone, PyFloat(70)>>]}

\* The part of WhisperTranscriber.transcribe after the API answered.
TranscribeResult(answer) ==
    IF answer.kind # "response" THEN PyNone
    ELSE LET segments == answer.segments
             NotNone(c) == ~IsNone(c)
             confidences == SelectSeq(segments, NotNone)
             values == [i \in 1..Len(confidences) |-> confidences[i].v]
         IN [t |-> "Lyrics",
             segments |-> IF Len(segments) > 0 THEN PyInt(Len(segments)) ELSE PyNone,
             confidence |-> IF Len(confidences) > 0
                            THEN PyFloat(SumSeq(values) \div Len(values))
                            ELSE PyNone,
             model_used |-> "whisper-1"]

\* ----------------------------------------------------------- AudioAnalyzer
Chars_T == <<"T">>
Chars_A == <<"A">>
Chars_G == <<"G">>

\* Tag sets of the files analysed: untagged, ID3 frames, Vorbis comments with
\* a two-digit date, MP4 atoms with a date that is no number, and ASF
\* attributes with an empty artist list.
TagFiles ==
    {[x \in {} |-> FrameVal(<<>>)],
     ("TIT2" :> FrameVal(Chars_T)) @@ ("TPE1" :> FrameVal(Chars_A))
        @@ ("TDRC" :> FrameVal(<<"2", "0", "2", "0", "-", "0", "5">>)),
     ("TITLE" :> ListVal(<<Chars_T>>)) @@ ("GENRE" :> ListVal(<<Chars_G>>))
        @@ ("DATE" :> ListVal(<<<<"9", "9">>>>)),
     ("(c)nam" :> ListVal(<<Chars_T>>)) @@ ("(c)alb" :> ListVal(<<Chars_A>>))
        @@ ("(c)day" :> ListVal(<<<<"n", "/", "a">>>>)),
     ("Title" :> ListVal(<<Chars_T>>)) @@ ("Artist" :> ListVal(<<>>))
        @@ ("Date" :> ListVal(<<<<"1", "9", "9", "9">>>>))}

\* What MutagenFile(audio_path) can do: raise, return None (format not
\* recognised) or return the file's tags.  A missing file always raises.
MutagenOutcomes(file_exists) ==
    {[kind |-> "raise", tags |-> <<>>]}
    \cup (IF file_exists
          THEN {[kind |-> "none", tags |-> <<>>]}
               \cup {[kind |-> "file", tags |-> tg] : tg \in TagFiles}
          ELSE {})

\* The classes the recogniser's frames take here: C:maj, G:maj, A:min, N.
FrameClasses == {0, 7, 21, NoChordIdx}

RECURSIVE SeqsUpTo(_, _)
SeqsUpTo(S, n) ==
    IF n = 0 THEN {<<>>}
    ELSE LET shorter == SeqsUpTo(S, n - 1)
         IN shorter \cup {Append(q, x) : q \in {r \in shorter : Len(r) = n - 1}, x \in S}

\* What madmom can do on one call.
MadmomOutcomes ==
    {[kind |-> "raise", chords |-> <<>>]}
    \cup {[kind |-> "frames", chords |-> c] : c \in SeqsUpTo(FrameClasses, MaxFrames)}

\* AudioFeatures()
AudioFeatures ==
    [librosa |-> PyNone, essentia |-> PyNone, chord_progression |-> PyNone,
     lyrics |-> PyNone]

\* Pydantic's check of `year: Optional[int]`: None, an int, or a string of
\* digits (converted); anything else is a ValidationError.
YearValid(y) ==
    \/ y.t \in {"None", "int"}
    \/ y.t = "str" /\ Len(y.v) > 0 /\ \A i \in 1..Len(y.v) : IsDigit(y.v[i])

YearField(y) == IF y.t = "str" THEN PyInt(ParseInt(y.v)) ELSE y

\* MusicAnalysis(...) as built at the end of analyze_audio.
MusicAnalysis(a, md, features, dur, sr) ==
    [t |-> "MusicAnalysis", duration |-> dur, sample_rate |-> sr,
     source |-> a.source, source_path |-> a.source_path,
     title |-> DictGet(md, "title"), artist |-> DictGet(md, "artist"),
     album |-> DictGet(md, "album"), genre |-> DictGet(md, "genre"),
     year |-> YearField(DictGet(md, "year")), features |-> features]

VARIABLES
    pc,             \* where the current analyze_audio call stands (audio_analyzer.py:35-114)
    runs,           \* analyze_audio calls started on the shared instance (analysis.py:21)
    args,           \* arguments of the current call and whether the file exists
    metadata,       \* local `metadata` (audio_analyzer.py:58)
    audio_features, \* local `audio_features` (audio_analyzer.py:63)
    duration,       \* local `duration` (audio_analyzer.py:68)
    sample_rate,    \* local `sample_rate` (audio_analyzer.py:68)
    result,         \* the MusicAnalysis returned by the current call, or None
    error,          \* the exception the current call raised, or None
    log,            \* calls and ends of the stages in the current call, in order
    librosa_sr,     \* self.librosa_extractor.sr (librosa_features.py:19, 37)
    client,         \* self.whisper_transcriber.client (whisper_transcription.py:25-30)
    frames,         \* local `chords` of _detect_chords_madmom: the decoded
                    \* class index of each frame (chord_analyzer.py:75)
    chords_data,    \* local `chords_data` of ChordAnalyzer.analyze (chord_analyzer.py:43)
    handler,        \* the request an endpoint of routers/analysis.py is serving:
                    \* its position, temp_path, analysis and response
    upload_dir,     \* the files present in settings.upload_dir
    db,             \* the MusicAnalysis documents inserted (analysis.insert())
    background_tasks \* the cleanup_file tasks scheduled and not yet run

vars == <<pc, runs, args, metadata, audio_features, duration, sample_rate,
          result, error, log, librosa_sr, client, frames, chords_data,
          handler, upload_dir, db, background_tasks>>

\* No request has been received yet.
NoRequest ==
    [id |-> 0, endpoint |-> "none", pc |-> "idle", temp_path |-> PyNone,
     analysis |-> PyNone, failed |-> "none", status_code |-> 0]

Stages == <<"metadata", "librosa", "essentia", "chord", "whisper">>

CallArgs ==
    {[extract_lyrics |-> l, file_exists |-> e, source |-> "upload", source_path |-> PyNone] :
        l \in BOOLEAN, e \in BOOLEAN}
    \cup {[extract_lyrics |-> l, file_exists |-> TRUE, source |-> "google_drive",
           source_path |-> PyStr(<<"u", "r", "l">>)] : l \in BOOLEAN}

\* AudioAnalyzer.__init__ with and without an OpenAI API key, before any call.
Init ==
    /\ pc = "idle"
    /\ runs = 0
    /\ args = [extract_lyrics |-> TRUE, file_exists |-> TRUE, source |-> "upload",
               source_path |-> PyNone]
    /\ metadata = EmptyDict
    /\ audio_features = AudioFeatures
    /\ duration = PyNone
    /\ sample_rate = PyNone
    /\ result = PyNone
    /\ error = PyNone
    /\ log = <<>>
    /\ librosa_sr = 22050
    /\ client \in {WhisperClient(""), WhisperClient("sk")}
    /\ frames = <<>>
    /\ chords_data = <<>>
    /\ handler = NoRequest
    /\ upload_dir = {}
    /\ db = {}
    /\ background_tasks = {}

\* How a stage call ended, for the log: it raised, it returned although the
\* library under it had failed, or it returned normally.
Ended(lib_failed, raised) ==
    IF raised THEN "raise" ELSE IF lib_failed THEN "swallow" ELSE "return"

\* How _extract_metadata came to its result, for the log: MutagenFile raised,
\* returned None, a tag value could not be read, or all tags were read.
MetadataEnded(mf) ==
    IF mf.kind = "raise" THEN "swallow"
    ELSE IF mf.kind = "none" THEN "none"
    ELSE IF TagLoop(mf.tags, 1, EmptyDict).raised THEN "swallow_tag"
    ELSE "return"

\* The `except Exception as e: ...; raise` of analyze_audio: the exception
\* caught is the one the caller gets.
Reraise(e) == e

\* analyze_audio ends by raising e.
Raise(e) ==
    /\ pc' = "raised"
    /\ error' = e

\* A caller invokes analyze_audio on the shared instance.
Call ==
    /\ pc \in {"idle", "returned", "raised"}
    /\ runs < MaxRuns
    /\ runs' = runs + 1
    /\ args' \in CallArgs
    /\ pc' = "metadata"
    /\ metadata' = EmptyDict
    /\ audio_features' = AudioFeatures
    /\ duration' = PyNone
    /\ sample_rate' = PyNone
    /\ result' = PyNone
    /\ error' = PyNone
    /\ log' = <<>>
    /\ UNCHANGED <<handler, upload_dir, db, background_tasks, frames, chords_data, librosa_sr, client>>

\* metadata = self._extract_metadata(audio_path)
ExtractMetadata ==
    /\ pc = "metadata"
    /\ \E mf \in MutagenOutcomes(args.file_exists) :
          LET r == _extract_metadata(mf)
          IN /\ metadata' = r.metadata
             /\ log' = log \o << <<"call", "metadata">>, <<MetadataEnded(mf), "metadata">> >>
             /\ IF r.raised
                THEN Raise(Exception("mutagen"))
                ELSE /\ pc' = "getsize"
                     /\ error' = error
    /\ UNCHANGED <<handler, upload_dir, db, background_tasks, frames, chords_data, runs, args, audio_features, duration, sample_rate, result,
                   librosa_sr, client>>

\* os.path.basename, os.path.getsize (outside the try) and AudioFeatures().
GetSize ==
    /\ pc = "getsize"
    /\ IF args.file_exists
       THEN /\ pc' = "librosa"
            /\ audio_features' = AudioFeatures
            /\ error' = error
       ELSE /\ Raise(Exception("os.path.getsize"))
            /\ audio_features' = audio_features
    /\ UNCHANGED <<handler, upload_dir, db, background_tasks, frames, chords_data, runs, args, metadata, duration, sample_rate, result, log,
                   librosa_sr, client>>

\* 1. self.librosa_extractor.extract_all_features(audio_path)
ExtractLibrosa ==
    /\ pc = "librosa"
    /\ \E o \in LibrosaOutcomes :
          LET r == Librosa_extract_all_features(librosa_sr, o)
          IN /\ librosa_sr' = r.self_sr
             /\ log' = log \o << <<"call", "librosa">>,
                                 <<Ended(o.kind # "ok", r.raised), "librosa">> >>
             /\ IF r.raised
                THEN /\ Raise(Reraise(r.exc))
                     /\ UNCHANGED <<audio_features, duration, sample_rate>>
                ELSE /\ pc' = "essentia"
                     /\ audio_features' = [audio_features EXCEPT !.librosa = r.features]
                     /\ duration' = PyFloat(r.duration)
                     /\ sample_rate' = PyInt(r.sr)
                     /\ error' = error
    /\ UNCHANGED <<handler, upload_dir, db, background_tasks, frames, chords_data, runs, args, metadata, result, client>>

\* Secondary extraction tried again after a failure (up to three calls).
ExtractEssentia_Retry ==
    /\ pc = "essentia"
    /\ \E o \in EssentiaOutcomes :
          LET r == Essentia_extract_all_features(o)
          IN /\ log' = log \o << <<"call", "essentia">>,
                                 <<Ended(o # "ok", r.raised), "essentia">> >>
             /\ IF r.raised
                THEN /\ IF Len(log) < 6
                        THEN pc' = "essentia" /\ error' = error
                        ELSE Raise(Reraise(r.exc))
                     /\ UNCHANGED audio_features
                ELSE /\ pc' = "chord"
                     /\ audio_features' = [audio_features EXCEPT !.essentia = r.features]
                     /\ error' = error
    /\ UNCHANGED <<handler, upload_dir, db, background_tasks, frames, chords_data, runs, args, metadata, duration, sample_rate, result, librosa_sr, client>>

\* 2. self.essentia_extractor.extract_all_features(audio_path)
ExtractEssentia ==
    /\ pc = "essentia"
    /\ \E o \in EssentiaOutcomes :
          LET r == Essentia_extract_all_features(o)
          IN /\ log' = log \o << <<"call", "essentia">>,
                                 <<Ended(o # "ok", r.raised), "essentia">> >>
             /\ IF r.raised
                THEN /\ Raise(Reraise(r.exc))
                     /\ UNCHANGED audio_features
                ELSE /\ pc' = "chord"
                     /\ audio_features' = [audio_features EXCEPT !.essentia = r.features]
                     /\ error' = error
    /\ UNCHANGED <<handler, upload_dir, db, background_tasks, frames, chords_data, runs, args, metadata, duration, sample_rate, result, librosa_sr, client>>

\* Chord analysis started as soon as primary extraction is done, without
\* waiting for secondary extraction.
AnalyzeChords_Early ==
    /\ pc \in {"essentia", "chord"}
    /\ \E m \in MadmomOutcomes :
          LET r == ChordAnalyzer_analyze(m)
          IN /\ log' = log \o << <<"call", "chord">>,
                                 <<Ended(m.kind = "raise", r.raised), "chord">> >>
             /\ pc' = IF pc = "essentia" THEN "essentia"
                      ELSE IF args.extract_lyrics THEN "whisper" ELSE "assemble"
             /\ audio_features' = [audio_features EXCEPT !.chord_progression = r.value]
             /\ error' = error
    /\ UNCHANGED <<handler, upload_dir, db, background_tasks, frames, chords_data, runs, args, metadata, duration, sample_rate, result, librosa_sr, client>>

\* The chord stage followed by a transcription that ignores extract_lyrics.
AnalyzeChords_AlwaysLyrics ==
    /\ pc = "chord"
    /\ \E m \in MadmomOutcomes :
          LET r == ChordAnalyzer_analyze(m)
          IN /\ log' = log \o << <<"call", "chord">>,
                                 <<Ended(m.kind = "raise", r.raised), "chord">> >>
             /\ pc' = "whisper"
             /\ audio_features' = [audio_features EXCEPT !.chord_progression = r.value]
             /\ error' = error
    /\ UNCHANGED <<handler, upload_dir, db, background_tasks, frames, chords_data, runs, args, metadata, duration, sample_rate, result, librosa_sr, client>>

\* 3. self.chord_analyzer.analyze(audio_path)
AnalyzeChords ==
    /\ pc = "chord"
    /\ \E m \in MadmomOutcomes :
          LET r == ChordAnalyzer_analyze(m)
          IN /\ log' = log \o << <<"call", "chord">>,
                                 <<Ended(m.kind = "raise", r.raised), "chord">> >>
             /\ IF r.raised
                THEN /\ Raise(Reraise(r.exc))
                     /\ UNCHANGED audio_features
                ELSE /\ pc' = IF args.extract_lyrics THEN "whisper" ELSE "assemble"
                     /\ audio_features' =
                            [audio_features EXCEPT !.chord_progression = r.value]
                     /\ error' = error
    /\ UNCHANGED <<handler, upload_dir, db, background_tasks, frames, chords_data, runs, args, metadata, duration, sample_rate, result, librosa_sr, client>>

\* 4. self.whisper_transcriber.transcribe(audio_path) up to the API request:
\* without a client it returns None at once; otherwise the file is opened
\* and the request is sent, or open() raises and None is returned.
TranscribeStart ==
    /\ pc = "whisper"
    /\ IF IsNone(client)
       THEN /\ pc' = "assemble"
            /\ log' = log \o << <<"call", "whisper">>, <<"return", "whisper">> >>
            /\ audio_features' = [audio_features EXCEPT !.lyrics = PyNone]
       ELSE \E opened \in BOOLEAN :
               IF opened
               THEN /\ pc' = "whisper_wait"
                    /\ log' = log \o << <<"call", "whisper">>, <<"open", "whisper">>,
                                        <<"request", "whisper">> >>
                    /\ audio_features' = audio_features
               ELSE /\ pc' = "assemble"
                    /\ log' = log \o << <<"call", "whisper">>, <<"open", "whisper">>,
                                        <<"swallow", "whisper">> >>
                    /\ audio_features' = [audio_features EXCEPT !.lyrics = PyNone]
    /\ UNCHANGED <<handler, upload_dir, db, background_tasks, frames, chords_data, runs, args, metadata, duration, sample_rate, result, error,
                   librosa_sr, client>>

\* The API answers; transcribe returns a Lyrics or None and analyze_audio
\* stores it in audio_features.lyrics.
TranscribeAnswer ==
    /\ pc = "whisper_wait"
    /\ \E answer \in ApiAnswers :
          /\ audio_features' = [audio_features EXCEPT !.lyrics = TranscribeResult(answer)]
          /\ log' = log \o << <<Ended(answer.kind # "response", FALSE), "whisper">> >>
    /\ pc' = "assemble"
    /\ UNCHANGED <<handler, upload_dir, db, background_tasks, frames, chords_data, runs, args, metadata, duration, sample_rate, result, error,
                   librosa_sr, client>>

\* analysis = MusicAnalysis(...); return analysis.  The model's validation of
\* the year is the one way the construction fails.
Assemble ==
    /\ pc = "assemble"
    /\ IF YearValid(DictGet(metadata, "year"))
       THEN /\ pc' = "returned"
            /\ result' = MusicAnalysis(args, metadata, audio_features, duration, sample_rate)
            /\ error' = error
       ELSE /\ Raise(Exception("MusicAnalysis.year"))
            /\ result' = result
    /\ UNCHANGED <<handler, upload_dir, db, background_tasks, frames, chords_data, runs, args, metadata, audio_features, duration, sample_rate, log,
                   librosa_sr, client>>

Next ==
    \/ Call
    \/ ExtractMetadata
    \/ GetSize
    \/ ExtractLibrosa
    \/ ExtractEssentia
    \/ AnalyzeChords
    \/ TranscribeStart
    \/ TranscribeAnswer
    \/ Assemble

Spec == Init /\ [][Next]_vars

\* The steps analyze_audio takes by itself are taken: it is a coroutine
\* without an await, once called it runs on.  A new call need not come, and
\* the answer of the transcription provider is not the program's to give.
FairSpec ==
    /\ Spec
    /\ WF_vars(ExtractMetadata)
    /\ WF_vars(GetSize)
    /\ WF_vars(ExtractLibrosa)
    /\ WF_vars(ExtractEssentia)
    /\ WF_vars(AnalyzeChords)
    /\ WF_vars(TranscribeStart)
    /\ WF_vars(Assemble)

\* ------------------------------------------- ChordAnalyzer.analyze alone
\* One call of ChordAnalyzer.analyze on a file madmom decodes: the decoded
\* frame classes are the input, the steps are the two calls in its try block.
ChordInit ==
    /\ pc = "chord_call"
    /\ runs = 0
    /\ args = [extract_lyrics |-> FALSE, file_exists |-> TRUE, source |-> "upload",
               source_path |-> PyNone]
    /\ metadata = EmptyDict
    /\ audio_features = AudioFeatures
    /\ duration = PyNone
    /\ sample_rate = PyNone
    /\ result = PyNone
    /\ error = PyNone
    /\ log = <<>>
    /\ librosa_sr = 22050
    /\ client = WhisperClient("")
    /\ frames \in SeqsUpTo(FrameClasses, MaxChordFrames)
    /\ chords_data = <<>>
    /\ handler = NoRequest
    /\ upload_dir = {}
    /\ db = {}
    /\ background_tasks = {}

\* chords_data = self._detect_chords_madmom(audio_path)
DetectChords ==
    /\ pc = "chord_call"
    /\ chords_data' = _detect_chords_madmom(frames)
    /\ pc' = "chord_detected"
    /\ UNCHANGED <<handler, upload_dir, db, background_tasks, frames, runs, args, metadata, audio_features, duration, sample_rate,
                   result, error, log, librosa_sr, client>>

\* analysis = self._analyze_chord_sequence(chords_data)
\* return ChordProgression(**analysis)
SummarizeChords ==
    /\ pc = "chord_detected"
    /\ audio_features' = [audio_features EXCEPT
                              !.chord_progression = _analyze_chord_sequence(chords_data)]
    /\ pc' = "chord_returned"
    /\ UNCHANGED <<handler, upload_dir, db, background_tasks, frames, chords_data, runs, args, metadata, duration, sample_rate,
                   result, error, log, librosa_sr, client>>

ChordNext ==
    \/ DetectChords
    \/ SummarizeChords

ChordSpec == ChordInit /\ [][ChordNext]_vars

\* The same call on longer inputs that know two chords only.
LongClasses == {0, 7}

LongChordInit ==
    /\ pc = "chord_call"
    /\ runs = 0
    /\ args = [extract_lyrics |-> FALSE, file_exists |-> TRUE, source |-> "upload",
               source_path |-> PyNone]
    /\ metadata = EmptyDict
    /\ audio_features = AudioFeatures
    /\ duration = PyNone
    /\ sample_rate = PyNone
    /\ result = PyNone
    /\ error = PyNone
    /\ log = <<>>
    /\ librosa_sr = 22050
    /\ client = WhisperClient("")
    /\ frames \in SeqsUpTo(LongClasses, MaxLongFrames)
    /\ chords_data = <<>>
    /\ handler = NoRequest
    /\ upload_dir = {}
    /\ db = {}
    /\ background_tasks = {}

LongChordSpec == LongChordInit /\ [][ChordNext]_vars

\* The same call on short inputs over all 25 classes of the recogniser
\* (madmom: 12 major, 12 minor, no chord).
AllClasses == 0..NoChordIdx

VocabInit ==
    /\ pc = "chord_call"
    /\ runs = 0
    /\ args = [extract_lyrics |-> FALSE, file_exists |-> TRUE, source |-> "upload",
               source_path |-> PyNone]
    /\ metadata = EmptyDict
    /\ audio_features = AudioFeatures
    /\ duration = PyNone
    /\ sample_rate = PyNone
    /\ result = PyNone
    /\ error = PyNone
    /\ log = <<>>
    /\ librosa_sr = 22050
    /\ client = WhisperClient("")
    /\ frames \in SeqsUpTo(AllClasses, MaxVocabFrames)
    /\ chords_data = <<>>
    /\ handler = NoRequest
    /\ upload_dir = {}
    /\ db = {}
    /\ background_tasks = {}

VocabSpec == VocabInit /\ [][ChordNext]_vars

\* ------------------------------------------------------ routers/analysis
\* The variables of AudioAnalyzer.analyze_audio, which the endpoints call as
\* one step: it has no await inside, so nothing of a handler interleaves it.
analyzer_vars ==
    <<pc, runs, args, metadata, audio_features, duration, sample_rate, result,
      error, log, librosa_sr, client, frames, chords_data>>

\* temp_path of a request: the timestamp in its name tells requests apart.
TempPath(id) == PyInt(id)

\* The handler raises HTTPException(status_code=code), or returns (200).
Respond(h, code, stage) == [h EXCEPT !.pc = "responded", !.status_code = code, !.failed = stage]

\* if os.path.exists(temp_path): os.remove(temp_path)
RemoveIfExists(dir, id) == dir \ {id}

\* upload_and_analyze up to the choice of temp_path: an extension outside
\* allowed_extensions answers 400.
ReceiveUpload ==
    /\ handler.pc \in {"idle", "responded"}
    /\ handler.id < MaxRequests
    /\ \E allowed \in BOOLEAN :
         LET req == [NoRequest EXCEPT !.id = handler.id + 1, !.endpoint = "upload"] IN
         handler' = IF allowed
                    THEN [req EXCEPT !.pc = "save", !.temp_path = TempPath(req.id)]
                    ELSE Respond(req, 400, "request")
    /\ UNCHANGED <<upload_dir, db, background_tasks, analyzer_vars>>

\* analyze_from_google_drive up to the choice of temp_path: no file id and a
\* file that is not audio answer 400, no metadata answers 404.
ReceiveGoogleDrive ==
    /\ handler.pc \in {"idle", "responded"}
    /\ handler.id < MaxRequests
    /\ \E check \in {"no_file_id", "not_audio", "no_metadata", "ok"} :
         LET req == [NoRequest EXCEPT !.id = handler.id + 1, !.endpoint = "google_drive"] IN
         handler' = CASE check = "ok" ->
                           [req EXCEPT !.pc = "download", !.temp_path = TempPath(req.id)]
                      [] check = "no_metadata" -> Respond(req, 404, "request")
                      [] OTHER -> Respond(req, 400, "request")
    /\ UNCHANGED <<upload_dir, db, background_tasks, analyzer_vars>>

\* open(temp_path, "wb") and shutil.copyfileobj: open may fail before the file
\* exists, the copy after it does; `except Exception` removes the file and
\* answers 500.
SaveUpload ==
    /\ handler.pc = "save"
    /\ \E outcome \in {"open_raise", "copy_raise", "ok"} :
         IF outcome = "ok"
         THEN /\ upload_dir' = upload_dir \cup {handler.id}
              /\ handler' = [handler EXCEPT !.pc = "analyze"]
         ELSE /\ upload_dir' = RemoveIfExists(upload_dir, handler.id)
              /\ handler' = Respond(handler, 500, "save")
    /\ UNCHANGED <<db, background_tasks, analyzer_vars>>

\* GoogleDriveService.download_file: False when a Drive call raises, before
\* (files().get) or after (next_chunk) io.FileIO created the destination.
download_file(outcome) ==
    [success |-> outcome = "ok", created |-> outcome \in {"chunk_raise", "ok"}]

\* success = gdrive_service.download_file(file_id, temp_path); `not success`
\* raises HTTPException(500), which `except HTTPException: raise` passes on.
Download ==
    /\ handler.pc = "download"
    /\ \E outcome \in {"get_raise", "chunk_raise", "ok"} :
         LET got == download_file(outcome) IN
         /\ upload_dir' = IF got.created THEN upload_dir \cup {handler.id} ELSE upload_dir
         /\ handler' = IF got.success
                       THEN [handler EXCEPT !.pc = "analyze"]
                       ELSE Respond(handler, 500, "download")
    /\ UNCHANGED <<db, background_tasks, analyzer_vars>>

\* An analysis step that goes on to the insert whatever analyze_audio did.
AnalyzeRequest_Swallow ==
    /\ handler.pc = "analyze"
    /\ \E outcome \in {"record", "raise"} :
         handler' = [handler EXCEPT !.pc = "insert",
                        !.analysis = IF outcome = "record" THEN PyInt(handler.id) ELSE PyNone,
                        !.failed = IF outcome = "record" THEN "none" ELSE "analysis"]
    /\ UNCHANGED <<upload_dir, db, background_tasks, analyzer_vars>>

\* analysis = await audio_analyzer.analyze_audio(...): a record, or an
\* exception that `except Exception` turns into cleanup and 500.
AnalyzeRequest ==
    /\ handler.pc = "analyze"
    /\ \E outcome \in {"record", "raise"} :
         IF outcome = "record"
         THEN /\ handler' = [handler EXCEPT !.pc = "insert", !.analysis = PyInt(handler.id)]
              /\ upload_dir' = upload_dir
         ELSE /\ handler' = Respond(handler, 500, "analysis")
              /\ upload_dir' = RemoveIfExists(upload_dir, handler.id)
    /\ UNCHANGED <<db, background_tasks, analyzer_vars>>

\* await analysis.insert(), then background_tasks.add_task(cleanup_file,
\* temp_path) and the success answer; a failing insert is cleaned up as above.
InsertAnalysis ==
    /\ handler.pc = "insert"
    /\ \E outcome \in {"ok", "raise"} :
         IF outcome = "ok"
         THEN /\ db' = db \cup {handler.id}
              /\ background_tasks' = background_tasks \cup {handler.id}
              /\ handler' = Respond(handler, 200, handler.failed)
              /\ upload_dir' = upload_dir
         ELSE /\ db' = db
              /\ background_tasks' = background_tasks
              /\ handler' = Respond(handler, 500, "insert")
              /\ upload_dir' = RemoveIfExists(upload_dir, handler.id)
    /\ UNCHANGED analyzer_vars

\* cleanup_file(file_path), run by the framework after the response.
cleanup_file ==
    /\ \E file_path \in background_tasks :
         /\ upload_dir' = RemoveIfExists(upload_dir, file_path)
         /\ background_tasks' = background_tasks \ {file_path}
    /\ UNCHANGED <<handler, db, analyzer_vars>>

HandlerInit == Init

HandlerNext ==
    \/ ReceiveUpload
    \/ ReceiveGoogleDrive
    \/ SaveUpload
    \/ Download
    \/ AnalyzeRequest
    \/ InsertAnalysis
    \/ cleanup_file

HandlerSpec == HandlerInit /\ [][HandlerNext]_vars

\* ------------------------------------------------------------------ claims
\* What the log of the current call tells.
Called(stage) == \E i \in 1..Len(log) : log[i] = <<"call", stage>>
CallCount(stage) == Cardinality({i \in 1..Len(log) : log[i] = <<"call", stage>>})
\* The library under the stage failed, whatever the stage made of it.
LibFailed(stage) ==
    \E i \in 1..Len(log) : log[i] \in {<<"raise", stage>>, <<"swallow", stage>>}
Succeeded(stage) == \E i \in 1..Len(log) : log[i] = <<"return", stage>>
Finished == pc \in {"returned", "raised"}
RequiredSucceeded == Succeeded("librosa") /\ Succeeded("essentia") /\ Succeeded("chord")

\* C1: when the chord stage fails inside a call, the call ends by raising and
\* returns no record.
C1_ChordFailureAbortsRun ==
    (Finished /\ LibFailed("chord")) => (pc = "raised" /\ IsNone(result))

\* C2: ChordAnalyzer.analyze never hands back an empty chord progression as
\* the result of a recogniser failure.
C2_NoEmptyProgressionOnFailure ==
    LibFailed("chord") =>
        ~(/\ audio_features.chord_progression.t = "ChordProgression"
          /\ audio_features.chord_progression.chord_sequence = <<>>)

\* C3: when primary (librosa) extraction fails the call raises that error,
\* returns no record, and secondary extraction, chord analysis and
\* transcription are not run.
C3_PrimaryFailureIsFatal ==
    LibFailed("librosa") =>
        /\ pc = "raised"
        /\ error.t = "Exception"
        /\ error.origin \in {"librosa.load", "librosa.feature"}
        /\ IsNone(result)
        /\ ~Called("essentia") /\ ~Called("chord") /\ ~Called("whisper")

C3_Witness == LibFailed("librosa") /\ pc = "raised" /\ error.origin = "librosa.feature"

\* C4 as stated: in a call where primary extraction fails, the metadata,
\* chord and transcription stages are never invoked.
C4_NoOtherStageOnPrimaryFailure ==
    LibFailed("librosa") => ~Called("metadata") /\ ~Called("chord") /\ ~Called("whisper")

\* C4 amended: in a call where primary extraction fails, the chord and
\* transcription stages are never invoked; the metadata stage was invoked
\* once, as the first stage, before primary extraction started.
C4_OnlyMetadataBeforePrimaryFailure ==
    LibFailed("librosa") =>
        /\ ~Called("chord") /\ ~Called("whisper")
        /\ CallCount("metadata") = 1
        /\ log[1] = <<"call", "metadata">>
        /\ log[3] = <<"call", "librosa">>

C4_Witness == LibFailed("librosa") /\ Called("metadata") /\ error.origin = "librosa.load"

\* C5: when secondary (essentia) extraction fails after primary extraction
\* succeeded, the call raises that error, returns no record, and neither the
\* chord stage nor the transcription stage is invoked.
C5_SecondaryFailureIsFatal ==
    LibFailed("essentia") =>
        /\ Succeeded("librosa")
        /\ pc = "raised"
        /\ error.t = "Exception"
        /\ error.origin \in {"essentia.MonoLoader", "essentia.feature"}
        /\ IsNone(result)
        /\ ~Called("chord") /\ ~Called("whisper")

C5_Witness == LibFailed("essentia") /\ Succeeded("librosa") /\ pc = "raised"

\* The call asked for lyrics and got none: the API failed, or transcribe
\* returned None.
TranscriptionFailed ==
    /\ args.extract_lyrics
    /\ Called("whisper")
    /\ pc \in {"assemble", "returned", "raised"}
    /\ IsNone(audio_features.lyrics)

\* C6: when transcription fails while every required stage succeeded and
\* extract_lyrics is true, the call raises nothing and returns a record with
\* librosa, essentia and chord_progression populated and lyrics absent.
C6_TranscriptionFailureIsAbsorbed ==
    (Finished /\ RequiredSucceeded /\ TranscriptionFailed) =>
        /\ pc = "returned"
        /\ IsNone(error)
        /\ result.t = "MusicAnalysis"
        /\ ~IsNone(result.features.librosa)
        /\ ~IsNone(result.features.essentia)
        /\ ~IsNone(result.features.chord_progression)
        /\ IsNone(result.features.lyrics)

\* The part of C6 the code keeps: a transcription failure alone never ends
\* the call; a call that raises after one raises from building the record.
C6_OnlyTheRecordCanFail ==
    (Finished /\ RequiredSucceeded /\ TranscriptionFailed) =>
        \/ /\ pc = "returned"
           /\ IsNone(result.features.lyrics)
           /\ ~IsNone(result.features.chord_progression)
        \/ /\ pc = "raised"
           /\ error.origin = "MusicAnalysis.year"
           /\ ~YearValid(DictGet(metadata, "year"))

\* Tag reading raised or yielded nothing.
MetadataFailed ==
    /\ Len(log) >= 2
    /\ log[2] \in {<<"swallow", "metadata">>, <<"none", "metadata">>,
                   <<"swallow_tag", "metadata">>}

\* C7 as stated: whenever tag reading raises or yields nothing the call still
\* proceeds to the extraction stages, and if they succeed it returns a record
\* whose title, artist, album, genre and year are absent.
C7_MetadataFailureLeavesFieldsAbsent ==
    MetadataFailed =>
        /\ pc = "raised" => Called("librosa")
        /\ (Finished /\ RequiredSucceeded) => pc = "returned"
        /\ pc = "returned" =>
              \A k \in {"title", "artist", "album", "genre", "year"} : IsNone(result[k])

\* C7 amended: _extract_metadata never raises.  When MutagenFile raises or
\* returns None the metadata is empty; when reading a tag value raises, the
\* tags read before it are kept and the year is never among them.  The call
\* then proceeds to the extraction stages unless os.path.getsize raises
\* because the file does not exist, and if they succeed it returns a record
\* whose tag fields are the ones already read, all five absent when
\* MutagenFile itself failed.
C7_MetadataFailureNeverFailsRun ==
    MetadataFailed =>
        /\ (pc = "raised" /\ ~Called("librosa")) =>
              (~args.file_exists /\ error.origin = "os.path.getsize")
        /\ (args.file_exists /\ Finished) => Called("librosa")
        /\ (Finished /\ RequiredSucceeded) => pc = "returned"
        /\ log[2][1] \in {"swallow", "none"} => metadata = EmptyDict
        /\ "year" \notin DOMAIN metadata
        /\ pc = "returned" =>
              /\ \A k \in {"title", "artist", "album", "genre", "year"} :
                    result[k] = DictGet(metadata, k)
              /\ IsNone(result.year)
              /\ log[2][1] \in {"swallow", "none"} =>
                    \A k \in {"title", "artist", "album", "genre"} : IsNone(result[k])

C7_Witness ==
    /\ MetadataFailed
    /\ log[2][1] = "swallow"
    /\ pc = "returned"
    /\ IsNone(result.title)

\* C8: every fatal stage failure (primary extraction, secondary extraction,
\* chord recognition) reaches the caller as an AnalysisError that wraps the
\* stage's error and names the stage.
C8_FatalFailureRaisesAnalysisError ==
    \A stage \in {"librosa", "essentia", "chord"} :
        (Finished /\ LibFailed(stage)) =>
            /\ pc = "raised"
            /\ error.t = "AnalysisError"
            /\ error.stage = stage

\* The stages called so far, in call order.
CallsInOrder ==
    LET IsCall(e) == e[1] = "call"
        calls == SelectSeq(log, IsCall)
    IN [i \in 1..Len(calls) |-> calls[i][2]]

ExpectedStages == IF args.extract_lyrics THEN Stages ELSE SubSeq(Stages, 1, 4)

\* A log entry that ends a stage call by a return.
EndsStage(e, stage) ==
    e[2] = stage /\ e[1] \in {"return", "swallow", "none", "swallow_tag"}

\* C9: in every call the stages start in the order metadata, primary
\* extraction, secondary extraction, chord analysis, transcription (when
\* enabled), and a stage starts only when the previous stage has completed.
C9_StagesRunInOrder ==
    /\ Len(CallsInOrder) <= Len(ExpectedStages)
    /\ \A i \in 1..Len(CallsInOrder) : CallsInOrder[i] = ExpectedStages[i]
    /\ \A i \in 1..Len(log) :
          log[i][1] = "call" =>
             IF log[i][2] = "metadata" THEN i = 1
             ELSE \E k \in 2..Len(Stages) :
                     /\ Stages[k] = log[i][2]
                     /\ EndsStage(log[i - 1], Stages[k - 1])
    /\ pc = "whisper_wait" => log[Len(log)] = <<"request", "whisper">>
    /\ pc \in {"assemble", "returned"} => EndsStage(log[Len(log)], ExpectedStages[Len(ExpectedStages)])

C9_Witness ==
    /\ pc = "returned"
    /\ CallsInOrder = Stages
    /\ LibFailed("whisper")

\* C10: within one call every stage is invoked at most once, on a call that
\* returns a record exactly once (transcription exactly once when
\* extract_lyrics is true, and then with at most one API request), and no
\* stage is invoked again after it failed.
C10_StagesInvokedOnce ==
    /\ \A k \in 1..Len(Stages) : CallCount(Stages[k]) <= 1
    /\ Cardinality({i \in 1..Len(log) : log[i] = <<"request", "whisper">>}) <= 1
    /\ \A i \in 1..Len(log) :
          log[i][1] \in {"raise", "swallow"} =>
             \A j \in (i + 1)..Len(log) : log[j] # <<"call", log[i][2]>>
    /\ pc = "returned" =>
          /\ \A k \in 1..4 : CallCount(Stages[k]) = 1
          /\ CallCount("whisper") = IF args.extract_lyrics THEN 1 ELSE 0

C10_Witness ==
    /\ pc = "returned"
    /\ args.extract_lyrics
    /\ LibFailed("chord")
    /\ \A k \in 1..Len(Stages) : CallCount(Stages[k]) = 1

\* C11: the transcriber is called only in a call made with extract_lyrics
\* true; in a call made with extract_lyrics false nothing of the transcriber
\* runs (no call, no open, no request), audio_features.lyrics stays None and
\* the record returned has no lyrics.
C11_LyricsOnlyWhenEnabled ==
    /\ (\E i \in 1..Len(log) : log[i][2] = "whisper") => args.extract_lyrics
    /\ pc \in {"whisper", "whisper_wait"} => args.extract_lyrics
    /\ (pc # "idle" /\ ~args.extract_lyrics) => IsNone(audio_features.lyrics)
    /\ (pc = "returned" /\ ~args.extract_lyrics) => IsNone(result.features.lyrics)

\* A call without extract_lyrics returns a record although a client with an
\* API key is there to be called.
C11_Witness ==
    /\ pc = "returned"
    /\ ~args.extract_lyrics
    /\ ~IsNone(client)
    /\ ~Called("whisper")
    /\ IsNone(result.features.lyrics)
    /\ ~IsNone(result.features.chord_progression)

\* ------------------------------------------------ the chord summary
\* The summary ChordAnalyzer.analyze has returned, once it has.
Summarized == pc = "chord_returned"
summary == audio_features.chord_progression

\* sum(d.values())
RECURSIVE SumOfValues(_)
SumOfValues(d) ==
    IF DOMAIN d = {} THEN 0
    ELSE LET k == CHOOSE x \in DOMAIN d : TRUE
         IN d[k] + SumOfValues([x \in DOMAIN d \ {k} |-> d[x]])

\* C12: in every summary the counts of chord_transitions add up to
\* max(len(chord_sequence) - 1, 0), and a non-empty chord_sequence has at
\* most len(chord_sequence) - 1 distinct transition keys.
C12_TransitionCountsAddUp ==
    Summarized =>
        LET n == Len(summary.chord_sequence)
        IN /\ SumOfValues(summary.chord_transitions) = IF n >= 1 THEN n - 1 ELSE 0
           /\ n >= 1 => Cardinality(DOMAIN summary.chord_transitions) <= n - 1

\* A summary in which one transition was counted more than once.
C12_Witness ==
    /\ Summarized
    /\ Len(summary.chord_sequence) >= 4
    /\ \E k \in DOMAIN summary.chord_transitions : summary.chord_transitions[k] >= 2
    /\ Cardinality(DOMAIN summary.chord_transitions) < Len(summary.chord_sequence) - 1

\* C13: in every summary unique_chords lists exactly the labels of
\* chord_sequence, each of them once.
C13_UniqueChordsIsTheLabelSet ==
    Summarized =>
        /\ \A i \in 1..Len(summary.chord_sequence) :
              \E j \in 1..Len(summary.unique_chords) :
                 summary.unique_chords[j] = summary.chord_sequence[i]
        /\ \A j \in 1..Len(summary.unique_chords) :
              \E i \in 1..Len(summary.chord_sequence) :
                 summary.chord_sequence[i] = summary.unique_chords[j]
        /\ \A i, j \in 1..Len(summary.unique_chords) :
              summary.unique_chords[i] = summary.unique_chords[j] => i = j

\* A summary whose chord_sequence names a label twice.
C13_Witness ==
    /\ Summarized
    /\ Len(summary.unique_chords) >= 2
    /\ Len(summary.chord_sequence) > Len(summary.unique_chords)

\* ------------------------------------------------ the run-length merge
\* _detect_chords_madmom has returned its events for `frames`.
Detected == pc \in {"chord_detected", "chord_returned"}

\* time = frame_idx / self.fps of frame number f (frames are numbered from 0).
FrameTime(f) == IntTrueDiv(f, fps)

\* The frame number a frame time was computed from.
FrameIndex(t) == t[1] \div (FloatScale \div fps)

\* The reals x and y written as floats differ by at most h hundredths.
RealWithin(x, y, h) ==
    LET n == x[1] - y[1]
        d == x[2] - y[2]
    IN /\ n < h \/ (n = h /\ d <= 0)
       /\ 0 - n < h \/ (0 - n = h /\ d >= 0)

\* The events that hold frame number f: those with
\* time <= FrameTime(f) < time + duration.
EventsHolding(f) ==
    {i \in 1..Len(chords_data) :
        /\ FloatLeq(chords_data[i].time, FrameTime(f))
        /\ FloatLess(FrameTime(f), FloatAdd(chords_data[i].time, chords_data[i].duration))}

\* C14: the events of the merge are chronological, non-overlapping and
\* gap-free: the first event starts at time 0, every event but the last ends
\* where the next one starts, and every decoded frame lies in exactly one
\* event.
C14_EventsCoverEveryFrame ==
    Detected =>
        /\ Len(chords_data) >= 1 => chords_data[1].time = FloatLit(0)
        /\ \A i \in 1..(Len(chords_data) - 1) :
              FloatAdd(chords_data[i].time, chords_data[i].duration) = chords_data[i + 1].time
        /\ \A f \in 0..(Len(frames) - 1) : Cardinality(EventsHolding(f)) = 1

\* C15: for a non-empty frame sequence the durations of the events add up to
\* the time the frames span, to within one frame period.
C15_DurationsAddUpToTheSpan ==
    (Detected /\ Len(frames) >= 1) =>
        LET total == FloatSum([i \in 1..Len(chords_data) |-> chords_data[i].duration],
                              Len(chords_data))
            span == IntTrueDiv(Len(frames), fps)
        IN RealWithin(total, span, FloatScale \div fps)

\* The labels of a list of events, in order.
Labels(events) == [i \in 1..Len(events) |-> events[i].chord]

\* The merged output as frames again, one frame per event: the class decoded
\* for the frame the event starts at.
OneFramePerEvent ==
    [i \in 1..Len(chords_data) |-> frames[FrameIndex(chords_data[i].time) + 1]]

\* C16: the merge is idempotent: no two adjacent events of its output carry
\* the same label, and merging the output again, one frame per event, gives
\* the same sequence of labels.
C16_MergeIsIdempotent ==
    Detected =>
        /\ \A i \in 1..(Len(chords_data) - 1) :
              chords_data[i].chord # chords_data[i + 1].chord
        /\ Labels(_detect_chords_madmom(OneFramePerEvent)) = Labels(chords_data)

\* A merge that joined frames and still left several events.
C16_Witness ==
    /\ Detected
    /\ Len(chords_data) >= 3
    /\ Len(frames) > Len(chords_data)
    /\ chords_data[1].chord = chords_data[3].chord

\* C17: for an empty frame input the summary has empty chords,
\* chord_sequence, unique_chords and chord_transitions, confidence_mean 0.0,
\* no key, no mode and no most_common_chord, and analyze returns it without
\* an error.
C17_EmptyInputGivesEmptySummary ==
    (frames = <<>> /\ pc # "chord_call") =>
        /\ chords_data = <<>>
        /\ IsNone(error)
        /\ Summarized =>
              /\ summary.chords = <<>>
              /\ summary.chord_sequence = <<>>
              /\ summary.unique_chords = <<>>
              /\ DOMAIN summary.chord_transitions = {}
              /\ summary.confidence_mean = PyFloat(FloatLit(0))
              /\ IsNone(summary.key)
              /\ IsNone(summary.mode)
              /\ IsNone(summary.most_common_chord)

\* The summary of an input without frames.
C17_Witness ==
    /\ frames = <<>>
    /\ Summarized
    /\ summary.t = "ChordProgression"
    /\ summary.confidence_mean = PyFloat(FloatLit(0))

\* C18: for a non-empty frame input that is all no-chord frames the summary
\* has most_common_chord "N" and neither key nor mode.
C18_AllNoChordHasNoKey ==
    (Summarized /\ Len(frames) >= 1 /\ \A i \in 1..Len(frames) : frames[i] = NoChordIdx) =>
        /\ summary.most_common_chord = PyStr(<<"N">>)
        /\ IsNone(summary.key)
        /\ IsNone(summary.mode)

\* The summary of several no-chord frames: one event, labelled N.
C18_Witness ==
    /\ Summarized
    /\ Len(frames) >= 2
    /\ \A i \in 1..Len(frames) : frames[i] = NoChordIdx
    /\ Labels(summary.chords) = << <<"N">> >>

\* ------------------------------------------------ the most common chord
\* How often x occurs in s, and where it occurs first.
Count(s, x) == Cardinality({i \in 1..Len(s) : s[i] = x})
FirstIndex(s, x) == CHOOSE i \in 1..Len(s) : s[i] = x /\ \A j \in 1..(i - 1) : s[j] # x

\* C19: for a non-empty chord_sequence most_common_chord is a label of the
\* sequence that no label outnumbers there, and no label of the same count
\* occurs before its first occurrence.
C19_MostCommonIsFirstOfTheMostFrequent ==
    (Summarized /\ Len(summary.chord_sequence) >= 1) =>
        LET seq == summary.chord_sequence
            m == summary.most_common_chord.v
        IN /\ summary.most_common_chord.t = "str"
           /\ \E i \in 1..Len(seq) : seq[i] = m
           /\ \A i \in 1..Len(seq) :
                 /\ Count(seq, seq[i]) <= Count(seq, m)
                 /\ Count(seq, seq[i]) = Count(seq, m) =>
                        FirstIndex(seq, m) <= FirstIndex(seq, seq[i])

\* A tie between two labels that occur twice each, decided for the one seen
\* first, which is not the first label of the sequence.
C19_Witness ==
    /\ Summarized
    /\ Len(summary.chord_sequence) >= 5
    /\ LET seq == summary.chord_sequence
           m == summary.most_common_chord.v
       IN /\ seq[1] # m
          /\ Count(seq, m) = 2
          /\ \E i \in 1..Len(seq) : seq[i] # m /\ Count(seq, seq[i]) = 2

\* The frames C:maj, C:maj, G:maj, G:maj, G:maj.
C20_Frames == <<0, 0, 7, 7, 7>>

\* C20 as claimed: for the frames C:maj, C:maj, G:maj, G:maj, G:maj the
\* analysis reports most_common_chord G:maj (the label covering the most
\* frames), key G and mode major.
C20_LabelOfMostFramesWins ==
    (Summarized /\ frames = C20_Frames) =>
        /\ summary.most_common_chord = PyStr(<<"G", ":", "m", "a", "j">>)
        /\ summary.key = PyStr(<<"G">>)
        /\ summary.mode = PyStr(<<"m", "a", "j", "o", "r">>)

\* C20 amended: for the frames C:maj, C:maj, G:maj, G:maj, G:maj the analysis
\* reports most_common_chord C:maj, key C and mode major: the two labels
\* occur once each in chord_sequence and the one seen first is reported.
C20_FirstOfTheTiedEventsWins ==
    (Summarized /\ frames = C20_Frames) =>
        /\ summary.chord_sequence = << <<"C", ":", "m", "a", "j">>, <<"G", ":", "m", "a", "j">> >>
        /\ summary.most_common_chord = PyStr(<<"C", ":", "m", "a", "j">>)
        /\ summary.key = PyStr(<<"C">>)
        /\ summary.mode = PyStr(<<"m", "a", "j", "o", "r">>)

\* The summary of those five frames: two events, of 0.2 s and 0.5 s.
C20_Witness ==
    /\ Summarized
    /\ frames = C20_Frames
    /\ Len(summary.chords) = 2
    /\ summary.chords[1].duration = FloatLit(20)
    /\ summary.chords[2].time = FloatLit(20)
    /\ summary.chords[2].duration = FloatLit(50)

\* C21: for the frames C:maj, C:maj, G:maj, G:maj, G:maj the merge emits
\* exactly the events {0.0, C:maj, 0.2} and {0.2, G:maj, 0.3}, chord_sequence
\* is [C:maj, G:maj] and the one transition C:maj -> G:maj is counted once.
C21_ExampleEvents ==
    LET C_maj == <<"C", ":", "m", "a", "j">>
        G_maj == <<"G", ":", "m", "a", "j">>
    IN /\ (Detected /\ frames = C20_Frames) =>
             chords_data = << ChordEvent(FloatLit(0), C_maj, FloatLit(20)),
                              ChordEvent(FloatLit(20), G_maj, FloatLit(30)) >>
       /\ (Summarized /\ frames = C20_Frames) =>
             /\ summary.chord_sequence = <<C_maj, G_maj>>
             /\ DOMAIN summary.chord_transitions = {TransitionKey(C_maj, G_maj)}
             /\ summary.chord_transitions[TransitionKey(C_maj, G_maj)] = 1

\* The labels of the 12 major and the 12 minor triads, each with its root
\* and the mode its quality stands for.
Roots == {CHORD_NAMES[i] : i \in 1..Len(CHORD_NAMES)}
TriadLabel(root, mode) ==
    root \o <<":">> \o (IF mode = <<"m", "a", "j", "o", "r">> THEN <<"m", "a", "j">>
                         ELSE <<"m", "i", "n">>)

\* C22: when most_common_chord exists and is not N, key is its root and mode
\* is major for the quality maj and minor otherwise; in every other case key
\* and mode are both absent; key is set exactly when mode is.
C22_KeyAndModeFollowMostCommon ==
    Summarized =>
        /\ IsNone(summary.key) <=> IsNone(summary.mode)
        /\ (IsNone(summary.most_common_chord)
              \/ summary.most_common_chord = PyStr(<<"N">>)) =>
                 IsNone(summary.key) /\ IsNone(summary.mode)
        /\ (~IsNone(summary.most_common_chord)
              /\ summary.most_common_chord # PyStr(<<"N">>)) =>
                 /\ summary.key.t = "str" /\ summary.key.v \in Roots
                 /\ summary.mode \in {PyStr(<<"m", "a", "j", "o", "r">>),
                                      PyStr(<<"m", "i", "n", "o", "r">>)}
                 /\ summary.most_common_chord.v = TriadLabel(summary.key.v, summary.mode.v)

\* A summary whose most common chord is a minor triad although a major
\* triad and N occur too.
C22_Witness ==
    /\ Summarized
    /\ summary.most_common_chord = PyStr(<<"A", ":", "m", "i", "n">>)
    /\ summary.key = PyStr(<<"A">>)
    /\ summary.mode = PyStr(<<"m", "i", "n", "o", "r">>)
    /\ Len(summary.unique_chords) >= 3
    /\ \E i \in 1..Len(summary.chord_sequence) : summary.chord_sequence[i] = <<"N">>

\* ------------------------------------------------ durations and confidence
\* The frame numbers at which a run of equal frames starts, in order.
RunStarts ==
    LET starts == {f \in 0..(Len(frames) - 1) : f = 0 \/ frames[f + 1] # frames[f]}
        nth(k) == CHOOSE f \in starts : Cardinality({g \in starts : g < f}) = k - 1
    IN [k \in 1..Cardinality(starts) |-> nth(k)]

\* 2^-51 s, two units in the last place of 1.0, in the unit of dev.
Tolerance == 2 * FloatScale * Pow2(FloatBits - 52)

\* The float x lies within Tolerance of the decimal of `hundredths`.
NearDecimal(x, hundredths) ==
    x[1] = hundredths /\ x[2] <= Tolerance /\ 0 - x[2] <= Tolerance

Vocabulary ==
    {<<"N">>} \cup {TriadLabel(r, m) : r \in Roots,
                                       m \in {<<"m", "a", "j", "o", "r">>,
                                              <<"m", "i", "n", "o", "r">>}}

\* The pitch class names in the order of the indices: the naturals C D E F
\* G A B lie 0, 2, 4, 5, 7, 9, 11 semitones above C, a sharp one above its
\* natural.
PitchClass(root) ==
    LET natural == CHOOSE k \in {0, 2, 4, 5, 7, 9, 11} :
                      <<"C", "D", "E", "F", "G", "A", "B">>[
                          Cardinality({j \in {0, 2, 4, 5, 7, 9, 11} : j < k}) + 1] = root[1]
    IN natural + (IF Len(root) = 2 THEN 1 ELSE 0)

\* C27: _get_chord_name maps the indices 0..24 one-to-one onto the 25 labels:
\* 24 gives N, 0..11 the major and 12..23 the minor triads with the root of
\* pitch class index mod 12; different indices give different labels and no
\* label lies outside the vocabulary.
C27_NamesAreOneToOne ==
    Detected =>
        /\ \A i \in 1..Len(chords_data) :
              LET idx == frames[FrameIndex(chords_data[i].time) + 1]
                  label == chords_data[i].chord
              IN /\ label \in Vocabulary
                 /\ label = <<"N">> <=> idx = NoChordIdx
                 /\ idx # NoChordIdx =>
                       /\ \E r \in Roots :
                             /\ PitchClass(r) = idx % 12
                             /\ label = TriadLabel(r, IF idx < 12
                                                      THEN <<"m", "a", "j", "o", "r">>
                                                      ELSE <<"m", "i", "n", "o", "r">>)
        /\ (Len(frames) >= 2 /\ frames[1] # frames[2]) =>
              (Len(chords_data) >= 2 /\ chords_data[1].chord # chords_data[2].chord)
        /\ Cardinality(Vocabulary) = NoChordIdx + 1

\* The frames 0 and 12 come out as two events, C:maj and C:min.
C27_Witness ==
    /\ Detected
    /\ frames = <<0, 12>>
    /\ Labels(chords_data) = << <<"C", ":", "m", "a", "j">>, <<"C", ":", "m", "i", "n">> >>

\* ------------------------------------------------ state across runs
\* C23: no step of analyze_audio changes an attribute of the extractor,
\* chord analyzer or transcriber objects of the shared AudioAnalyzer, so
\* after any number of runs each has the value it had before the first.
C23_AttributesNeverChange == [][librosa_sr' = librosa_sr /\ client' = client]_vars

\* C24: the transcription stage is bounded by a timeout: a call that waits
\* for the provider's answer ends even if the answer never comes.  Under
\* FairSpec the answer is not forced, so this holds only if the client
\* library ends the request by itself, which the source does not say.
C24_TranscriptionIsBounded == (pc = "whisper_wait") ~> Finished

\* ------------------------------------------------ no API key
\* C30: without an API key transcribe returns None without opening the
\* audio file or sending a request, and a call with extract_lyrics true
\* whose required stages succeed still returns a record, with lyrics absent.
C30_NoKeyStillReturnsRecord ==
    IsNone(client) =>
        /\ \A i \in 1..Len(log) :
              log[i] \notin {<<"open", "whisper">>, <<"request", "whisper">>}
        /\ pc # "whisper_wait"
        /\ Called("whisper") => IsNone(audio_features.lyrics)
        /\ (Finished /\ args.extract_lyrics /\ RequiredSucceeded) =>
              /\ pc = "returned"
              /\ Called("whisper")
              /\ IsNone(result.features.lyrics)

\* ------------------------------------------------ the endpoints
Responded == handler.pc = "responded"
ErrorStatus == handler.status_code \in 400..599

\* C28: a document is inserted only after analyze_audio returned a record for
\* the request, and a request whose download or analysis failed inserts
\* nothing and answers with an error status.
C28_InsertOnlyAfterRecord ==
    /\ db \subseteq 1..handler.id
    /\ handler.id \in db =>
         /\ handler.analysis = PyInt(handler.id)
         /\ handler.failed = "none"
         /\ Responded /\ handler.status_code = 200
    /\ handler.pc = "insert" => handler.analysis = PyInt(handler.id)
    /\ handler.failed \in {"download", "analysis"} =>
         /\ handler.id \notin db
         /\ Responded /\ ErrorStatus

\* An earlier request was inserted and the current one failed to download.
C28_Witness ==
    /\ Responded
    /\ handler.failed = "download"
    /\ db # {}

\* C29: a request that ends with an error response after its temp_path was
\* chosen leaves no file at that path.
C29_NoTempFileAfterError ==
    (Responded /\ ErrorStatus /\ handler.temp_path # PyNone) =>
        handler.id \notin upload_dir

====
